---- MODULE Spec2Model ----
(***************************************************************************)
(* ebook2audio: the rate limiter (core/rate_limiter.py) and the resumable  *)
(* generation pipeline (generator/hindi_manhwa_generator.py and its        *)
(* builders).  Time is counted in whole seconds, the resolution of         *)
(* timedelta.seconds and timedelta.days.                                   *)
(***************************************************************************)
EXTENDS Integers, Sequences, FiniteSets, TLC

\* ---------------------------------------------------------------- bounds
\* clock steps the environment may take in one behaviour
MaxTicks == 3
\* record_request() calls in one behaviour of the limiter specification
MaxRecords == 3
\* largest per-minute and per-day quota tried
MaxRpm == 2
MaxRpd == 2
\* stage invocations, process starts and malformed or failed responses in one behaviour
MaxOps == 5
MaxProcs == 2
MaxBad == 2
\* chapters per outline batch.  The source's batches hold 20 chapters and its
\* completeness threshold is 100 = 5 * 20; the model keeps the five batches and
\* scales the batch size, so the threshold is NumBatches * BatchSize.
BatchSize == 2

\* ------------------------------------------------------ program constants
\* the rolling window of can_make_request / get_wait_time, in seconds
Window == 60
\* seconds in one day: timedelta splits an interval into .days and .seconds
DaySeconds == 86400

\* hindi_manhwa_generator.py:237  five batches
NumBatches == 5
\* hindi_manhwa_generator.py:219,282  the count that makes the outline set complete
TotalChapters == NumBatches * BatchSize
\* hindi_manhwa_generator.py:257  time.sleep(5) before the retry of a batch
RetryBackoff == 5
\* hindi_manhwa_generator.py:367  time.sleep(10) after a chapter raised
ChapterCooldown == 10
\* config/settings.py:23  the default model's rpm and rpd
DefaultQuota == <<15, 1000>>

\* Python's None, where a record is expected and where a session id is
None == [kind |-> "none", tag |-> 0]
NoSession == -1
Topics == {"T1", "T2"}
Stages == {"foundation", "outline", "chapters", "storage", "race"}

\* amounts the clock may advance by in one step
ClockSteps == {10, 30, DaySeconds}
\* the seconds between the end of one process and the start of the next
RestartDelays == {0, Window \div 2}

VARIABLES
    now,             \* datetime.now(), in seconds
    ticks,           \* clock steps taken so far
    rpm, rpd,        \* RateLimiter.rpm, RateLimiter.rpd
    request_times,   \* RateLimiter.request_times
    daily_requests,  \* RateLimiter.daily_requests
    last_reset,      \* RateLimiter.last_reset
    rl_op,           \* the limiter method that returned last
    rl_ret,          \* what it returned
    h_recorded,      \* history: the time of every record_request()
    h_win_start,     \* history: start of the current day window
    h_win_count,     \* history: requests recorded in the current day window
    h_pending,       \* history: the last per-minute denial still waited on
    h_call,          \* history: what the last can_make_request() was called on
    \* ---- persisted documents (manhwa_metadata/)
    session_index,        \* session_index.json: topic -> session id
    f_foundation,         \* <session>_foundation.json, by session id
    f_all_chapters,       \* <session>_all_chapters.json
    f_outline_progress,   \* <session>_outline_progress.json
    f_chapter_progress,   \* <session>_chapter_progress.json
    \* ---- one generator instance (one process)
    session_id,           \* HindiManhwaGenerator.session_id
    series_foundation,    \* HindiManhwaGenerator.series_foundation
    all_chapters,         \* HindiManhwaGenerator.all_chapters (the chapter_num of each outline)
    chapter_summaries,    \* HindiManhwaGenerator.chapter_summaries (the chapter_num of each entry)
    f_endings,            \* chapter_context/ch<NNN>_ending.txt, by chapter number
    f_texts,              \* manhwa_chapters/<title>_ch<NNN>.txt, by title and chapter number
    pc,                   \* where the running stage is
    loc,                  \* the running stage's local variables
    ret,                  \* what the last finished stage returned
    \* ---- history of the pipeline
    h_calls,              \* external calls issued by the running (or last) stage
    h_run,                \* what the running stage found when it started
    h_bad,                \* responses other than a well-formed one, so far
    h_ops,                \* stage invocations so far
    h_procs,              \* processes started so far
    h_focus,              \* the stage whose responses may be malformed or fail
    peer                  \* a second process working on the same session: its own copy

rlvars == <<rpm, rpd, request_times, daily_requests, last_reset, rl_op, rl_ret>>
hvars == <<h_recorded, h_win_start, h_win_count, h_pending, h_call>>
files == <<session_index, f_foundation, f_all_chapters, f_outline_progress, f_chapter_progress>>
mem == <<session_id, series_foundation, all_chapters>>
ctl == <<pc, loc, ret>>
ctxvars == <<chapter_summaries, f_endings, f_texts>>
hpipe == <<h_calls, h_run, h_bad, h_ops, h_procs, h_focus>>
pipevars == <<files, mem, ctl, ctxvars, hpipe, peer>>
vars == <<now, ticks, rlvars, hvars, pipevars>>

\* ------------------------------------------------------------ rate limiter
\* timedelta.days and timedelta.seconds of a non-negative interval d
Days(d) == d \div DaySeconds
Seconds(d) == d % DaySeconds

DailyWindowExpired_GT(t, lr) == Days(t - lr) > 1
\* rate_limiter.py:24  (now - self.last_reset).days >= 1
DailyWindowExpired(t, lr) == Days(t - lr) >= 1

\* rate_limiter.py:29  (now - t).seconds < 60
InWindow(t, x) == Seconds(t - x) < Window

\* rate_limiter.py:29  the list comprehension that prunes the window
Prune(rt, t) == SelectSeq(rt, LAMBDA x : InWindow(t, x))

DailyMsg == "Daily limit reached"
RateMsg == "Rate limit: wait"
OkMsg == "OK"

\* what can_make_request() returns; max stands for the quota the message quotes
Ret(allowed, msg, wait, max) == [allowed |-> allowed, msg |-> msg, wait |-> wait, max |-> max]

\* rate_limiter.py:24-26: the daily counter and window start after the reset check
DailyAfterReset(dr, lr, t) == IF DailyWindowExpired(t, lr) THEN 0 ELSE dr
ResetAfterReset(lr, t) == IF DailyWindowExpired(t, lr) THEN t ELSE lr

\* rate_limiter.py:27  self.daily_requests >= self.rpd
DailyExhausted(dr, d) == dr >= d

\* rate_limiter.py:22-33: can_make_request() as a function of the limiter's fields:
\* the returned pair and the fields it leaves behind
CanMakeRequest(rt, dr, lr, r, d, t) ==
    LET dr1 == DailyAfterReset(dr, lr, t)
        lr1 == ResetAfterReset(lr, t)
        rt1 == Prune(rt, t)
    IN  IF DailyExhausted(dr1, d)
        THEN [ret |-> Ret(FALSE, DailyMsg, 0, d), rt |-> rt, dr |-> dr1, lr |-> lr1]
        ELSE IF Len(rt1) >= r
             THEN [ret |-> Ret(FALSE, RateMsg, Window - Seconds(t - rt1[1]), r),
                   rt |-> rt1, dr |-> dr1, lr |-> lr1]
             ELSE [ret |-> Ret(TRUE, OkMsg, 0, 0), rt |-> rt1, dr |-> dr1, lr |-> lr1]

\* rate_limiter.py:39-47: get_wait_time()
GetWaitTime(rt, t) ==
    IF rt = <<>> THEN 0
    ELSE LET elapsed == Seconds(t - rt[1])
         IN  IF elapsed < Window THEN Window - elapsed + 1 ELSE 0

\* ---------------------------------------------------------------- history
\* requests recorded less than Window seconds before t, by the recorded times
RecentCount(t) == Cardinality({i \in 1..Len(h_recorded) : t - h_recorded[i] < Window})

NoPending == [set |-> FALSE, due |-> 0]
NoCall == [recent |-> 0, at_due |-> FALSE]

\* a function with one more (or one replaced) entry: writing a file, setting a key
Put(f, k, v) == [x \in DOMAIN f \cup {k} |-> IF x = k THEN v ELSE f[x]]
\* a function without an entry: removing a file
Drop(f, k) == [x \in DOMAIN f \ {k} |-> f[x]]
EmptyMap == [x \in {} |-> None]

SaveJsonFile_KeepExisting(f, sid, obj) == IF sid \in DOMAIN f THEN f ELSE Put(f, sid, obj)
\* hindi_manhwa_generator.py:154-156  _save_json_file: the file of the session is
\* opened for writing and holds obj, whatever it held
SaveJsonFile(f, sid, obj) == Put(f, sid, obj)

\* --------------------------------------------- the limiter driven through its API
\* config/settings.py:18-24  the quotas a model configures (small ones, and the default's)
Quotas == ((1..MaxRpm) \X (1..MaxRpd)) \cup {DefaultQuota}
\* the quotas the pipeline is run under: a tight one and the default model's
PipelineQuotas == {<<MaxRpm, MaxRpd + 1>>, DefaultQuota}

\* what a stage returned: a foundation record (or None), the outline sequence,
\* or the pair (success, failed); "exception" when the stage raised
RetDoc(d) == [kind |-> "doc", doc |-> d, chapters |-> <<>>, success |-> 0, failed |-> <<>>]
RetChapters(c) == [kind |-> "chapters", doc |-> None, chapters |-> c, success |-> 0, failed |-> <<>>]
RetPair(n, f) == [kind |-> "pair", doc |-> None, chapters |-> <<>>, success |-> n, failed |-> f]
RetException == [kind |-> "exception", doc |-> None, chapters |-> <<>>, success |-> 0, failed |-> <<>>]
RetNothing == [kind |-> "nothing", doc |-> None, chapters |-> <<>>, success |-> 0, failed |-> <<>>]

NoLoc == [op |-> "none"]
NoRun == [op |-> "none", done |-> TRUE]
NoPeer == [pc |-> "none"]

InitWith(Q) ==
    /\ now = 0
    /\ ticks = 0
    /\ \E q \in Q : rpm = q[1] /\ rpd = q[2]
    /\ request_times = <<>>
    /\ daily_requests = 0
    /\ last_reset = 0
    /\ rl_op = "init"
    /\ rl_ret = Ret(TRUE, OkMsg, 0, 0)
    /\ h_recorded = <<>>
    /\ h_win_start = 0
    /\ h_win_count = 0
    /\ h_pending = NoPending
    /\ h_call = NoCall
    /\ session_index = EmptyMap
    /\ f_foundation = EmptyMap
    /\ f_all_chapters = EmptyMap
    /\ f_outline_progress = EmptyMap
    /\ f_chapter_progress = EmptyMap
    /\ session_id = 0
    /\ series_foundation = None
    /\ all_chapters = <<>>
    /\ chapter_summaries = <<>>
    /\ f_endings = EmptyMap
    /\ f_texts = EmptyMap
    /\ pc = "idle"
    /\ loc = NoLoc
    /\ ret = RetNothing
    /\ h_calls = <<>>
    /\ h_run = NoRun
    /\ h_bad = 0
    /\ h_ops = 0
    /\ h_procs = 1
    /\ h_focus \in Stages
    /\ peer = NoPeer

\* the limiter on its own, under every small quota
InitRL == InitWith(Quotas) /\ h_focus = "foundation"

\* the wall clock advances
Tick ==
    /\ ticks < MaxTicks
    /\ \E d \in ClockSteps : now' = now + d
    /\ ticks' = ticks + 1
    /\ UNCHANGED <<rlvars, hvars, pipevars>>

\* rate_limiter.py:22-33
RLCanMakeRequest ==
    LET c == CanMakeRequest(request_times, daily_requests, last_reset, rpm, rpd, now)
        rolled == now - h_win_start >= DaySeconds
    IN  /\ request_times' = c.rt
        /\ daily_requests' = c.dr
        /\ last_reset' = c.lr
        /\ rl_op' = "can_make_request"
        /\ rl_ret' = c.ret
        /\ h_win_start' = IF rolled THEN now ELSE h_win_start
        /\ h_win_count' = IF rolled THEN 0 ELSE h_win_count
        /\ h_pending' =
             IF c.ret.msg = RateMsg /\ RecentCount(now) = rpm
             THEN [set |-> TRUE, due |-> now + c.ret.wait]
             ELSE IF h_pending.set /\ now >= h_pending.due THEN NoPending ELSE h_pending
        /\ h_call' = [recent |-> RecentCount(now),
                      at_due |-> h_pending.set /\ now = h_pending.due]
        /\ UNCHANGED <<now, ticks, rpm, rpd, h_recorded, pipevars>>

\* rate_limiter.py:35-37
RLRecordRequest ==
    /\ Len(h_recorded) < MaxRecords
    /\ request_times' = Append(request_times, now)
    /\ daily_requests' = daily_requests + 1
    /\ rl_op' = "record_request"
    /\ h_recorded' = Append(h_recorded, now)
    /\ h_win_count' = h_win_count + 1
    /\ h_pending' = NoPending
    /\ UNCHANGED <<now, ticks, rpm, rpd, last_reset, rl_ret, h_win_start, h_call, pipevars>>

\* rate_limiter.py:39-47
RLGetWaitTime ==
    /\ rl_op' = "get_wait_time"
    /\ rl_ret' = Ret(TRUE, OkMsg, GetWaitTime(request_times, now), 0)
    /\ UNCHANGED <<now, ticks, rpm, rpd, request_times, daily_requests, last_reset, hvars, pipevars>>


\* ------------------------------------------------------------------ pipeline
Max(a, b) == IF a >= b THEN a ELSE b

\* JSON records the generation service may answer with.  A foundation record is
\* known by whether it carries series_title and by a tag telling two answers apart.
Titled(k) == [kind |-> "titled", tag |-> k]
Untitled == [kind |-> "untitled", tag |-> 0]
EmptyRecord == [kind |-> "empty", tag |-> 0]
DocTags == {1, 2}

\* Python truth of a loaded or returned value: None and {} are false
Truthy(d) == d # None /\ d # EmptyRecord
\* 'series_title' in d, for a record d
HasTitle(d) == d # None /\ d.kind = "titled"

\* hindi_manhwa_generator.py:48,194  the session id is the clock reading, to the second
FreshSessionId(t) == t

\* a file whose bytes are no JSON document, and a session index file of that kind
Corrupt == [corrupt |-> TRUE]
CorruptIndex == [x \in {"corrupt"} |-> NoSession]

\* hindi_manhwa_generator.py:159-165  the file exists and json.load does not raise
Loads(f, sid) == sid \in DOMAIN f /\ f[sid] # Corrupt

\* history: a file the running stage found damaged when it started
Damaged(f, sid) == sid \in DOMAIN f /\ f[sid] = Corrupt

\* hindi_manhwa_generator.py:158-165  _load_json_file: the document, or None when
\* the file is absent or json.load raised
LoadFile(f, sid) == IF Loads(f, sid) THEN f[sid] ELSE None

LoadSessionIndex_Raw(idx) == idx
\* hindi_manhwa_generator.py:111-119  _load_session_index: the mapping, or {} when
\* the file is absent or cannot be read
LoadSessionIndex(idx) == IF idx = CorruptIndex THEN EmptyMap ELSE idx

\* hindi_manhwa_generator.py:134-136  _get_registered_session_for_topic
RegisteredSession(idx, topic) ==
    IF topic \in DOMAIN LoadSessionIndex(idx) THEN LoadSessionIndex(idx)[topic] ELSE NoSession

\* hindi_manhwa_generator.py:142-152  _wait_for_rate_limit: one can_make_request(),
\* and when it denies one sleep of get_wait_time() seconds; the limiter's fields
\* and the clock afterwards
WaitForRateLimit(rt, dr, lr, r, d, t) ==
    LET c == CanMakeRequest(rt, dr, lr, r, d, t)
        w == IF c.ret.allowed THEN 0 ELSE GetWaitTime(c.rt, t)
    IN  [rt |-> c.rt, dr |-> c.dr, lr |-> c.lr, now |-> t + w]

\* the limiter and the clock pass through _wait_for_rate_limit
DoWait ==
    LET w == WaitForRateLimit(request_times, daily_requests, last_reset, rpm, rpd, now)
    IN  /\ request_times' = w.rt
        /\ daily_requests' = w.dr
        /\ last_reset' = w.lr
        /\ now' = w.now

\* whether can_make_request() would answer allowed, were it asked now
Permitted == CanMakeRequest(request_times, daily_requests, last_reset, rpm, rpd, now).ret.allowed

\* history: one external generation call, when it was issued and how it came out:
\* "ok", "empty" (nothing usable was returned), "raise" (run() raised) or "error"
\* (the response was returned and handling it raised)
CallRec(stage, arg, recorded, out) ==
    [stage |-> stage, arg |-> arg, permitted |-> Permitted, recorded |-> recorded,
     at |-> now, out |-> out]

\* the request is recorded (rate_limiter.py:35-37) or, when the call raised, it is not
DoRecord(recorded) ==
    /\ request_times' = IF recorded THEN Append(request_times, now) ELSE request_times
    /\ daily_requests' = IF recorded THEN daily_requests + 1 ELSE daily_requests

\* ---- stage 1: foundation
\* what story_planner.run may do for the foundation prompt: raise, answer without
\* content, or answer text that parses to a record, to a list (known by its first
\* element), to something else, or not at all
FoundationResponses ==
    {[shape |-> "raise", first |-> None],
     [shape |-> "nocontent", first |-> None],
     [shape |-> "unparsable", first |-> None],
     [shape |-> "scalar", first |-> None],
     [shape |-> "list", first |-> None],
     [shape |-> "list", first |-> Untitled],
     [shape |-> "dict", first |-> Untitled],
     [shape |-> "dict", first |-> EmptyRecord]}
    \cup {[shape |-> "list", first |-> Titled(k)] : k \in DocTags}
    \cup {[shape |-> "dict", first |-> Titled(k)] : k \in DocTags}

\* history: the running foundation stage has received no answer yet
NoAnswer == [shape |-> "none", first |-> None]

\* the answer of a service that behaves: the record the prompt asked for
WellFormedAnswer == [shape |-> "dict", first |-> Titled(1)]
WellFormedFoundation(resp) == resp = WellFormedAnswer

UnwrapList_First(first) == first
\* foundation_builder.py:73-79  a list is unwrapped to its first element when that
\* is a record with series_title; a first record without it fails the stage; any
\* other list is left a list (None stands for a value that is no record)
UnwrapList(first) == IF HasTitle(first) THEN first ELSE None

\* foundation_builder.py:65-106  the record the builder accepts, or None
ParseFoundation(resp) ==
    CASE resp.shape = "dict" -> resp.first
      [] resp.shape = "list" -> UnwrapList(resp.first)
      [] OTHER -> None

UseCached_Never(registered, loaded) == FALSE
\* hindi_manhwa_generator.py:180-186  the cached foundation is used when the topic
\* is registered, the session's foundation file exists and what it loads is true
UseCached(registered, loaded) == registered # NoSession /\ Truthy(loaded)

\* hindi_manhwa_generator.py:184  the registered session id is adopted as soon as
\* its foundation file exists, before the file is loaded
AdoptsRegistered(registered) == registered # NoSession /\ registered \in DOMAIN f_foundation

Register_Overwrite(idx, topic, sid) == Put(EmptyMap, topic, sid)
\* hindi_manhwa_generator.py:129-132  _register_session_for_topic: the index is
\* loaded, the topic's entry set, and the whole index written back
Register(idx, topic, sid) == Put(LoadSessionIndex(idx), topic, sid)

Registers_Always(foundation) == TRUE
\* hindi_manhwa_generator.py:196-203  if foundation: the session is registered for
\* the topic only when the builder returned a non-empty record
Registers(foundation) == Truthy(foundation)

\* the environment may answer badly only in the stage under focus, MaxBad times
MayMisbehave(stage) == h_focus = stage /\ h_bad < MaxBad
\* the topics the caller asks for: one, and a second one when the foundation stage
\* is under focus
TopicsAsked == IF h_focus = "foundation" THEN Topics ELSE {"T1"}

StartRun(r) ==
    /\ h_run' = r
    /\ h_calls' = <<>>
    /\ h_ops' = h_ops + 1

\* hindi_manhwa_generator.py:171-194  generate_series_foundation, up to the builder
StartFoundation ==
    /\ pc = "idle"
    /\ h_ops < MaxOps
    /\ \E topic \in TopicsAsked :
         LET registered == RegisteredSession(session_index, topic)
             loaded == IF AdoptsRegistered(registered)
                       THEN LoadFile(f_foundation, registered) ELSE None
         IN  /\ StartRun([op |-> "foundation", topic |-> topic, done |-> FALSE,
                          registered |-> registered,
                          cached |-> IF registered = NoSession THEN None
                                     ELSE LoadFile(f_foundation, registered),
                          index0 |-> session_index,
                          dr0 |-> daily_requests,
                          t0 |-> now,
                          resp |-> NoAnswer,
                          damaged |-> {n \in {"index", "foundation"} :
                              \/ n = "index" /\ session_index = CorruptIndex
                              \/ n = "foundation" /\ Damaged(f_foundation, registered)}])
             /\ IF UseCached(registered, loaded)
                THEN /\ session_id' = registered
                     /\ series_foundation' = loaded
                     /\ ret' = RetDoc(loaded)
                     /\ pc' = "idle"
                     /\ loc' = NoLoc
                ELSE /\ session_id' = FreshSessionId(now)
                     /\ series_foundation' = series_foundation
                     /\ ret' = ret
                     /\ pc' = "f_wait"
                     /\ loc' = [op |-> "foundation", topic |-> topic]
    /\ UNCHANGED <<peer, ctxvars, now, ticks, rlvars, hvars, files, all_chapters, h_bad, h_procs, h_focus>>

\* foundation_builder.py:27  self.generator._wait_for_rate_limit()
FoundationWait ==
    /\ pc = "f_wait"
    /\ DoWait
    /\ pc' = "f_call"
    /\ UNCHANGED <<peer, ctxvars, ticks, rpm, rpd, rl_op, rl_ret, hvars, files, mem, loc, ret, hpipe>>

\* foundation_builder.py:58-106 and hindi_manhwa_generator.py:195-205: the call,
\* record_request, validation, the checkpoint and the registration
FoundationCall ==
    /\ pc = "f_call"
    /\ \E resp \in FoundationResponses \cup {WellFormedAnswer} :
         LET raised == resp.shape = "raise"
             foundation == ParseFoundation(resp)
         IN  /\ WellFormedFoundation(resp) \/ MayMisbehave("foundation")
             /\ h_run' = [h_run EXCEPT !.done = TRUE, !.resp = resp]
             /\ h_bad' = IF WellFormedFoundation(resp) THEN h_bad ELSE h_bad + 1
             /\ h_calls' = Append(h_calls, CallRec("foundation", loc.topic, ~raised,
                    CASE raised -> "raise"
                      [] resp.shape = "nocontent" -> "error"
                      [] resp.shape # "nocontent" /\ ~raised /\ ~Truthy(foundation) -> "empty"
                      [] OTHER -> "ok"))
             /\ DoRecord(~raised)
             /\ IF raised \/ resp.shape = "nocontent"
                THEN /\ ret' = RetException
                     /\ UNCHANGED <<series_foundation, f_foundation, session_index>>
                ELSE /\ ret' = RetDoc(foundation)
                     /\ series_foundation' =
                          IF foundation = None THEN series_foundation ELSE foundation
                     /\ f_foundation' =
                          IF foundation = None THEN f_foundation
                          ELSE Put(f_foundation, session_id, foundation)
                     /\ session_index' =
                          IF Registers(foundation)
                          THEN Register(session_index, loc.topic, session_id)
                          ELSE session_index
    /\ pc' = "idle"
    /\ loc' = NoLoc
    /\ UNCHANGED <<peer, ctxvars, now, ticks, rpm, rpd, last_reset, rl_op, rl_ret, hvars,
                   f_all_chapters, f_outline_progress, f_chapter_progress,
                   session_id, all_chapters, h_ops, h_procs, h_focus>>


\* ---- stage 2: outlines
Range(q) == {q[i] : i \in 1..Len(q)}
\* the sequence a, a+1, .., b
Seq2(a, b) == [i \in 1..(b - a + 1) |-> a + i - 1]

\* hindi_manhwa_generator.py:237  batches = [(1,20),(21,40),(41,60),(61,80),(81,100)]
Batch(i) == <<(i - 1) * BatchSize + 1, i * BatchSize>>

\* a parsed entry that is no record with chapter_num
BadItem == -1

\* what story_planner.run may do for the outline prompt of batch (s, e): raise, or
\* answer text that does not parse, or parses to a scalar, to one record, or to a
\* list; items holds the chapter_num of each entry (BadItem for a non-conforming one)
WellFormedBatch(s, e) == [shape |-> "list", items |-> Seq2(s, e)]
OutlineResponses(s, e) ==
    {WellFormedBatch(s, e),
     [shape |-> "raise", items |-> <<>>],
     [shape |-> "unparsable", items |-> <<>>],
     [shape |-> "scalar", items |-> <<>>],
     [shape |-> "dict", items |-> <<s>>],
     [shape |-> "list", items |-> <<BadItem>> \o Seq2(s, e)]}

MayRetry_Always(retried) == TRUE
\* hindi_manhwa_generator.py:255-267  an empty batch is asked for once more, and
\* not again when the second answer is empty too
MayRetry(retried) == ~retried

Skip_Never(b, completed) == FALSE
\* hindi_manhwa_generator.py:240  if [start, end] in progress['completed_batches']
Skip(b, completed) == b \in Range(completed)

\* hindi_manhwa_generator.py:239-242  the first batch from index i on that is not skipped
RECURSIVE NextBatch(_, _)
NextBatch(i, completed) ==
    IF i > NumBatches THEN i
    ELSE IF Skip(Batch(i), completed) THEN NextBatch(i + 1, completed) ELSE i

\* history: no answer has been received by the running outline stage yet
NoResponse == [shape |-> "none", items |-> <<>>]

ParseBatch_DropRecord(resp) ==
    IF resp.shape = "list"
    THEN SelectSeq(resp.items, LAMBDA x : x # BadItem)
    ELSE <<>>
\* chapter_outline_builder.py:71-82  a record is wrapped into a list; the entries
\* that are records with chapter_num are kept, in order
ParseBatch(resp) ==
    IF resp.shape \in {"dict", "list"}
    THEN SelectSeq(resp.items, LAMBDA x : x # BadItem)
    ELSE <<>>

\* chapter_outline_builder.py:33,38 and chapter_content_builder.py:43,48: the prompt
\* reads series_foundation.get(..) and series_foundation['series_title']
PromptBuilds(fnd) == HasTitle(fnd)

IsComplete_Off(doc) == doc.total = Len(doc.chapters) /\ Len(doc.chapters) > TotalChapters
\* hindi_manhwa_generator.py:219  a canonical document that counts as complete
IsComplete(doc) == doc.total = Len(doc.chapters) /\ Len(doc.chapters) >= TotalChapters

\* hindi_manhwa_generator.py:226-230  the progress checkpoint, or a fresh one
LoadOutlineProgress(sid) ==
    IF Loads(f_outline_progress, sid) THEN f_outline_progress[sid]
    ELSE [completed_batches |-> <<>>, chapters |-> <<>>]

CleanupDue_Always(n) == TRUE
\* hindi_manhwa_generator.py:282  if len(self.all_chapters) >= 100
CleanupDue(n) == n >= TotalChapters

\* hindi_manhwa_generator.py:272-289  after the loop: the canonical snapshot is
\* written, the progress checkpoint is removed once 100 outlines are held, and the
\* stage returns; prog is the progress file as the loop left it
FinishOutlines(chs, prog) ==
    /\ f_all_chapters' = SaveJsonFile(f_all_chapters, session_id,
           [foundation |-> series_foundation, chapters |-> chs, total |-> Len(chs)])
    /\ f_outline_progress' = IF CleanupDue(Len(chs)) THEN Drop(prog, session_id) ELSE prog
    /\ all_chapters' = chs
    /\ ret' = RetChapters(chs)
    /\ pc' = "idle"
    /\ loc' = NoLoc

\* hindi_manhwa_generator.py:211-242  generate_all_chapter_outlines, up to the
\* first batch that is not skipped
StartOutlines ==
    /\ pc = "idle"
    /\ h_ops < MaxOps
    /\ LET exists == Loads(f_all_chapters, session_id)
           progress == LoadOutlineProgress(session_id)
           chs == IF progress.chapters # <<>> THEN progress.chapters ELSE all_chapters
           first == NextBatch(1, progress.completed_batches)
       IN  /\ StartRun([op |-> "outline",
                        done |-> (exists /\ IsComplete(f_all_chapters[session_id]))
                                 \/ first > NumBatches,
                        aborted |-> FALSE,
                        complete0 |-> exists /\ Len(f_all_chapters[session_id].chapters) >= TotalChapters,
                        chapters0 |-> IF exists THEN f_all_chapters[session_id].chapters ELSE <<>>,
                        completed0 |-> Range(progress.completed_batches),
                        rt0 |-> request_times, dr0 |-> daily_requests,
                        memory0 |-> all_chapters,
                        resp |-> NoResponse, valid |-> <<>>,
                        damaged |-> {n \in {"canonical", "outline_progress"} :
                            \/ n = "canonical" /\ Damaged(f_all_chapters, session_id)
                            \/ n = "outline_progress" /\ Damaged(f_outline_progress, session_id)}])
           /\ IF exists /\ IsComplete(f_all_chapters[session_id])
              THEN /\ series_foundation' = f_all_chapters[session_id].foundation
                   /\ all_chapters' = f_all_chapters[session_id].chapters
                   /\ ret' = RetChapters(f_all_chapters[session_id].chapters)
                   /\ pc' = "idle"
                   /\ loc' = NoLoc
                   /\ UNCHANGED <<f_all_chapters, f_outline_progress>>
              ELSE /\ series_foundation' = series_foundation
                   /\ IF first > NumBatches
                      THEN FinishOutlines(chs, f_outline_progress)
                      ELSE /\ all_chapters' = chs
                           /\ ret' = ret
                           /\ pc' = "o_wait"
                           /\ loc' = [op |-> "outline", idx |-> first, retry |-> FALSE,
                                      completed |-> progress.completed_batches]
                           /\ UNCHANGED <<f_all_chapters, f_outline_progress>>
    /\ UNCHANGED <<peer, ctxvars, now, ticks, rlvars, hvars, session_index, f_foundation,
                   f_chapter_progress, session_id, h_bad, h_procs, h_focus>>

\* chapter_outline_builder.py:22-59  _wait_for_rate_limit, then the prompt is built;
\* when that raises, the loop of the stage breaks (hindi_manhwa_generator.py:268-270)
OutlineWait ==
    /\ pc = "o_wait"
    /\ DoWait
    /\ IF PromptBuilds(series_foundation)
       THEN /\ pc' = "o_call"
            /\ UNCHANGED <<f_all_chapters, f_outline_progress, all_chapters, loc, ret, h_run>>
       ELSE /\ FinishOutlines(all_chapters, f_outline_progress)
            /\ h_run' = [h_run EXCEPT !.done = TRUE, !.aborted = TRUE]
    /\ UNCHANGED <<peer, ctxvars, ticks, rpm, rpd, rl_op, rl_ret, hvars, session_index, f_foundation,
                   f_chapter_progress, session_id, series_foundation, h_calls, h_bad,
                   h_ops, h_procs, h_focus>>

\* chapter_outline_builder.py:61-86 and hindi_manhwa_generator.py:245-270: the call,
\* record_request, validation, and what the loop does with the batch
OutlineCall ==
    /\ pc = "o_call"
    /\ LET b == Batch(loc.idx) IN
       \E resp \in OutlineResponses(b[1], b[2]) :
         LET raised == resp.shape = "raise"
             valid == ParseBatch(resp)
             chs == all_chapters \o valid
             completed == Append(loc.completed, b)
             prog == SaveJsonFile(f_outline_progress, session_id,
                         [completed_batches |-> completed, chapters |-> chs])
             nxt == NextBatch(loc.idx + 1, completed)
             broke == raised \/ resp.shape = "scalar" \/ (valid = <<>> /\ ~MayRetry(loc.retry))
         IN  /\ resp = WellFormedBatch(b[1], b[2]) \/ MayMisbehave("outline")
             /\ h_run' = [h_run EXCEPT !.aborted = broke,
                                       !.resp = resp,
                                       !.valid = IF raised \/ resp.shape = "scalar"
                                                 THEN <<>> ELSE valid,
                                       !.done = broke \/ (valid # <<>> /\ nxt > NumBatches)]
             /\ h_bad' = IF resp = WellFormedBatch(b[1], b[2]) THEN h_bad ELSE h_bad + 1
             /\ h_calls' = Append(h_calls, CallRec("outline", loc.idx, ~raised,
                    CASE raised -> "raise"
                      [] resp.shape = "scalar" -> "error"
                      [] resp.shape # "scalar" /\ ~raised /\ valid = <<>> -> "empty"
                      [] OTHER -> "ok"))
             /\ DoRecord(~raised)
             /\ CASE raised \/ resp.shape = "scalar" ->
                       /\ now' = now
                       /\ FinishOutlines(all_chapters, f_outline_progress)
                  [] ~(raised \/ resp.shape = "scalar") /\ valid # <<>> ->
                       /\ now' = now
                       /\ IF nxt > NumBatches
                          THEN FinishOutlines(chs, prog)
                          ELSE /\ all_chapters' = chs
                               /\ f_outline_progress' = prog
                               /\ loc' = [loc EXCEPT !.idx = nxt, !.retry = FALSE,
                                                     !.completed = completed]
                               /\ pc' = "o_wait"
                               /\ UNCHANGED <<f_all_chapters, ret>>
                  [] OTHER ->
                       IF ~MayRetry(loc.retry)
                       THEN /\ now' = now
                            /\ FinishOutlines(all_chapters, f_outline_progress)
                       ELSE /\ now' = now + RetryBackoff
                            /\ loc' = [loc EXCEPT !.retry = TRUE]
                            /\ pc' = "o_wait"
                            /\ UNCHANGED <<f_all_chapters, f_outline_progress, all_chapters, ret>>
    /\ UNCHANGED <<peer, ctxvars, ticks, rpm, rpd, last_reset, rl_op, rl_ret, hvars, session_index,
                   f_foundation, f_chapter_progress, session_id, series_foundation,
                   h_ops, h_procs, h_focus>>

\* ---- stage 3: chapters
\* the chapter numbers a caller passes as start_from
StartFroms == {1, 4}

\* what content_writer.run may do for a chapter prompt: answer a script, answer
\* text that is empty once cleaned, answer without content, or raise
ChapterResponses == {"script", "empty", "nocontent", "raise"}

ResumePoint_Start(start_from, last_completed) == start_from
\* hindi_manhwa_generator.py:322-324  current_start = max(start_from, last_completed + 1)
ResumePoint(start_from, last_completed) == Max(start_from, last_completed + 1)

\* hindi_manhwa_generator.py:333-337  the first entry from position i on whose
\* chapter_num is not below current_start
RECURSIVE NextPos(_, _, _)
NextPos(chs, i, current_start) ==
    IF i > Len(chs) THEN i
    ELSE IF chs[i] < current_start THEN NextPos(chs, i + 1, current_start) ELSE i

\* list.remove(x): the first occurrence of x leaves the list
RECURSIVE RemoveFirst(_, _)
RemoveFirst(q, x) ==
    IF q = <<>> THEN <<>>
    ELSE IF Head(q) = x THEN Tail(q) ELSE <<Head(q)>> \o RemoveFirst(Tail(q), x)

\* a text, by what it is made of: the script answered for chapter ch in a session,
\* the tail excerpt of one, or the text without a word
Text(kind, ch, sid) == [kind |-> kind, ch |-> ch, session |-> sid]
NoText == Text("empty", 0, NoSession)

\* chapter_content_builder.py:98-99  response.content.strip(), cleaned for speech
Content(resp, ch, sid) == IF resp = "script" THEN Text("script", ch, sid) ELSE NoText

\* file_utils.py:13-15  the last 500 words of the content (800 of a longer one)
TailWords(content) == IF content = NoText THEN NoText ELSE [content EXCEPT !.kind = "tail"]

\* file_utils.py:9-20  save_chapter_ending writes the excerpt to ch<NNN>_ending.txt
SaveChapterEnding(endings, ch, content) == Put(endings, ch, TailWords(content))

\* file_utils.py:23-33  read_previous_ending: the file of chapter_num - 1, or ""
ReadPreviousEnding(endings, chapter_num) ==
    IF chapter_num - 1 \in DOMAIN endings THEN endings[chapter_num - 1] ELSE NoText

\* one element of context_parts: a header line, the lines rendered from one entry
\* of chapter_summaries (its summary cut at 300 characters), or the excerpt read
Part(kind, ch, text) == [part |-> kind, ch |-> ch, text |-> text]

RecentSummaries_All(summaries) == summaries
\* context_manager.py:25-26  chapter_summaries[max(0, len - 3):]
RecentSummaries(summaries) ==
    SubSeq(summaries, Max(0, Len(summaries) - 3) + 1, Len(summaries))

\* context_manager.py:28-34  the header and one part per recent entry
SummaryParts(recent) ==
    IF recent = <<>> THEN <<>>
    ELSE <<Part("summaries_header", 0, NoText)>> \o
         [i \in 1..Len(recent) |-> Part("summary", recent[i], NoText)]

\* context_manager.py:42-44  the header and the excerpt, when the excerpt has text
EndingParts(ending) ==
    IF ending # NoText
    THEN <<Part("ending_header", 0, NoText), Part("ending", 0, ending)>>
    ELSE <<>>

\* context_manager.py:17-46  get_previous_context(chapter_num), as context_parts
GetPreviousContext(chapter_num) ==
    IF chapter_num <= 1 THEN <<>>
    ELSE SummaryParts(RecentSummaries(chapter_summaries)) \o
         EndingParts(ReadPreviousEnding(f_endings, chapter_num))

\* chapter_content_builder.py:117-119  the chapter file is named by the series title
\* and the chapter number
ChapterFile(fnd, ch) == <<fnd.tag, ch>>

\* chapter_content_builder.py:101-122  what generate_chapter_content writes once it
\* has the content: the excerpt, the summary, the chapter file, in that order
WriteChapter(ch, content) ==
    /\ f_endings' = SaveChapterEnding(f_endings, ch, content)
    /\ chapter_summaries' = Append(chapter_summaries, ch)
    /\ f_texts' = Put(f_texts, ChapterFile(series_foundation, ch), content)

\* hindi_manhwa_generator.py:316-320  the chapter checkpoint, or a fresh one
LoadChapterProgress(sid) ==
    IF Loads(f_chapter_progress, sid) THEN f_chapter_progress[sid]
    ELSE [last_completed_chapter |-> 0, failed |-> <<>>]

Abort_OnFailure(nxt, n) == n + 1
\* hindi_manhwa_generator.py:360-367  after a failed chapter the loop goes on with
\* the next entry
AfterFailure(nxt, n) == nxt

\* hindi_manhwa_generator.py:333-379  the loop moves to position nxt, or the stage
\* returns (success, failed) when no entry is left
ChapterStep(nxt, ok, success, failed, last) ==
    IF nxt > Len(all_chapters)
    THEN /\ ret' = RetPair(success, failed)
         /\ pc' = "idle"
         /\ loc' = NoLoc
         /\ h_run' = [h_run EXCEPT !.done = TRUE,
                                   !.attempted = Append(h_run.attempted,
                                                        [pos |-> loc.pos, ok |-> ok])]
    ELSE /\ ret' = ret
         /\ pc' = "c_wait"
         /\ loc' = [loc EXCEPT !.pos = nxt, !.success = success, !.failed = failed,
                               !.last_completed = last]
         /\ h_run' = [h_run EXCEPT !.attempted = Append(h_run.attempted,
                                                        [pos |-> loc.pos, ok |-> ok])]

\* hindi_manhwa_generator.py:360-367  the chapter at loc.pos failed: it joins the
\* failed list and the checkpoint is saved
ChapterFailed ==
    LET failed == Append(loc.failed, all_chapters[loc.pos])
        nxt == AfterFailure(NextPos(all_chapters, loc.pos + 1, loc.current_start),
                            Len(all_chapters))
    IN  /\ f_chapter_progress' = SaveJsonFile(f_chapter_progress, session_id,
               [last_completed_chapter |-> loc.last_completed, failed |-> failed])
        /\ ChapterStep(nxt, FALSE, loc.success, failed, loc.last_completed)

\* hindi_manhwa_generator.py:295-331  generate_all_chapters(start_from), up to the
\* first entry at or above the resume point
StartChapters ==
    /\ pc = "idle"
    /\ h_ops < MaxOps
    /\ \E start_from \in StartFroms :
         LET load == all_chapters = <<>> /\ Loads(f_all_chapters, session_id)
             chs == IF load THEN f_all_chapters[session_id].chapters ELSE all_chapters
             progress == LoadChapterProgress(session_id)
             current_start == ResumePoint(start_from, progress.last_completed_chapter)
             first == NextPos(chs, 1, current_start)
         IN  /\ StartRun([op |-> "chapters", done |-> Len(chs) = 0 \/ first > Len(chs),
                          start_from |-> start_from,
                          last0 |-> progress.last_completed_chapter,
                          failed0 |-> progress.failed,
                          chapters0 |-> chs,
                          attempted |-> <<>>,
                          dr0 |-> daily_requests,
                          memory0 |-> all_chapters,
                          damaged |-> {n \in {"canonical", "chapter_progress"} :
                              \/ n = "canonical" /\ Damaged(f_all_chapters, session_id)
                              \/ n = "chapter_progress" /\ Damaged(f_chapter_progress, session_id)}])
             /\ series_foundation' =
                  IF load THEN f_all_chapters[session_id].foundation ELSE series_foundation
             /\ all_chapters' = chs
             /\ IF Len(chs) = 0
                THEN /\ ret' = RetPair(0, Seq2(start_from, TotalChapters))
                     /\ pc' = "idle"
                     /\ loc' = NoLoc
                ELSE IF first > Len(chs)
                THEN /\ ret' = RetPair(0, progress.failed)
                     /\ pc' = "idle"
                     /\ loc' = NoLoc
                ELSE /\ ret' = ret
                     /\ pc' = "c_wait"
                     /\ loc' = [op |-> "chapters", pos |-> first,
                                current_start |-> current_start, success |-> 0,
                                failed |-> progress.failed,
                                last_completed |-> progress.last_completed_chapter,
                                context |-> <<>>]
    /\ UNCHANGED <<peer, ctxvars, now, ticks, rlvars, hvars, files, session_id, h_bad, h_procs, h_focus>>

\* chapter_content_builder.py:35-87  _wait_for_rate_limit, then the prompt is built;
\* when that raises the chapter has failed (hindi_manhwa_generator.py:360-367)
ChapterWait ==
    /\ pc = "c_wait"
    /\ LET w == WaitForRateLimit(request_times, daily_requests, last_reset, rpm, rpd, now)
       IN  /\ request_times' = w.rt
           /\ daily_requests' = w.dr
           /\ last_reset' = w.lr
           /\ IF PromptBuilds(series_foundation)
              THEN /\ now' = w.now
                   /\ pc' = "c_call"
                   /\ loc' = [loc EXCEPT !.context = GetPreviousContext(all_chapters[loc.pos])]
                   /\ UNCHANGED <<f_chapter_progress, ret, h_run>>
              ELSE /\ now' = w.now + ChapterCooldown
                   /\ ChapterFailed
    /\ UNCHANGED <<peer, ctxvars, ticks, rpm, rpd, rl_op, rl_ret, hvars, session_index, f_foundation,
                   f_all_chapters, f_outline_progress, mem, h_calls, h_bad, h_ops,
                   h_procs, h_focus>>

\* chapter_content_builder.py:91-129 and hindi_manhwa_generator.py:343-367: the
\* call, record_request, and what the loop does with the chapter
ChapterCall ==
    /\ pc = "c_call"
    /\ \E resp \in ChapterResponses :
         LET raised == resp = "raise"
             ch == all_chapters[loc.pos]
             failed == RemoveFirst(loc.failed, ch)
             nxt == NextPos(all_chapters, loc.pos + 1, loc.current_start)
         IN  /\ resp = "script" \/ MayMisbehave("chapters")
             /\ h_bad' = IF resp = "script" THEN h_bad ELSE h_bad + 1
             /\ h_calls' = Append(h_calls, CallRec("chapters", ch, ~raised,
                    CASE raised -> "raise"
                      [] resp = "nocontent" -> "error"
                      [] resp = "empty" -> "empty"
                      [] OTHER -> "ok"))
             /\ DoRecord(~raised)
             /\ IF resp \in {"script", "empty"}
                THEN WriteChapter(ch, Content(resp, ch, session_id))
                ELSE UNCHANGED ctxvars
             /\ CASE resp = "script" ->
                       /\ now' = now
                       /\ f_chapter_progress' = SaveJsonFile(f_chapter_progress, session_id,
                              [last_completed_chapter |-> ch, failed |-> failed])
                       /\ ChapterStep(nxt, TRUE, loc.success + 1, failed, ch)
                  [] resp = "empty" ->
                       /\ now' = now
                       /\ ChapterFailed
                  [] OTHER ->
                       /\ now' = now + ChapterCooldown
                       /\ ChapterFailed
    /\ UNCHANGED <<peer, ticks, rpm, rpd, last_reset, rl_op, rl_ret, hvars, session_index,
                   f_foundation, f_all_chapters, f_outline_progress, mem, h_ops,
                   h_procs, h_focus>>


\* the chapters a caller asks generate_chapter_content for on its own
RegenChapters == {2, 5}

\* what generate_chapter_content returned: the content, none, or an exception
RetContent(c) == [kind |-> "content", doc |-> None, chapters |-> <<>>,
                  success |-> IF c = NoText THEN 0 ELSE 1, failed |-> <<>>]

\* hindi_manhwa_generator.py:385-387 and chapter_content_builder.py:19-129
\* generate_chapter_content(n) called on its own: the outline is looked up, the
\* limiter is waited on, the prompt is built, the service is called and the
\* excerpt, the summary and the chapter file are written; the chapter checkpoint
\* is neither read nor written
RegenerateChapter ==
    /\ pc = "idle"
    /\ h_ops < MaxOps
    /\ h_ops' = h_ops + 1
    /\ \E n \in RegenChapters :
         LET w == WaitForRateLimit(request_times, daily_requests, last_reset, rpm, rpd, now)
             permitted == CanMakeRequest(w.rt, w.dr, w.lr, rpm, rpd, w.now).ret.allowed
             run(out) == [op |-> "regenerate", done |-> TRUE, chapter |-> n, out |-> out,
                          progress0 |-> f_chapter_progress]
         IN  IF n \notin Range(all_chapters)
             THEN /\ ret' = RetContent(NoText)
                  /\ h_run' = run("no outline")
                  /\ h_calls' = <<>>
                  /\ UNCHANGED <<now, request_times, daily_requests, last_reset, ctxvars, h_bad>>
             ELSE /\ now' = w.now
                  /\ last_reset' = w.lr
                  /\ IF ~PromptBuilds(series_foundation)
                     THEN /\ ret' = RetException
                          /\ h_run' = run("no prompt")
                          /\ h_calls' = <<>>
                          /\ request_times' = w.rt
                          /\ daily_requests' = w.dr
                          /\ UNCHANGED <<ctxvars, h_bad>>
                     ELSE \E resp \in ChapterResponses :
                            LET raised == resp = "raise"
                                written == resp \in {"script", "empty"}
                            IN  /\ resp = "script" \/ MayMisbehave("chapters")
                                /\ h_bad' = IF resp = "script" THEN h_bad ELSE h_bad + 1
                                /\ h_run' = run(resp)
                                /\ h_calls' = <<[stage |-> "chapters", arg |-> n,
                                                 permitted |-> permitted, recorded |-> ~raised,
                                                 at |-> w.now,
                                                 out |-> CASE raised -> "raise"
                                                           [] resp = "nocontent" -> "error"
                                                           [] resp = "empty" -> "empty"
                                                           [] OTHER -> "ok"]>>
                                /\ request_times' = IF raised THEN w.rt ELSE Append(w.rt, w.now)
                                /\ daily_requests' = IF raised THEN w.dr ELSE w.dr + 1
                                /\ IF written
                                   THEN /\ WriteChapter(n, Content(resp, n, session_id))
                                        /\ ret' = RetContent(Content(resp, n, session_id))
                                   ELSE /\ UNCHANGED ctxvars
                                        /\ ret' = RetException
    /\ UNCHANGED <<peer, ticks, rpm, rpd, rl_op, rl_ret, hvars, files, mem, pc, loc, h_procs, h_focus>>

\* hindi_manhwa_generator.py:44-86  a new process constructs a generator: a fresh
\* session id and limiter, nothing in memory; the files stay
NewProcess ==
    /\ h_procs < MaxProcs
    /\ pc = "idle" \/ loc.op = h_focus \/ h_focus = "storage"
    /\ h_procs' = h_procs + 1
    /\ \E d \in RestartDelays : now' = now + d
    /\ session_id' = FreshSessionId(now')
    /\ request_times' = <<>>
    /\ daily_requests' = 0
    /\ last_reset' = now'
    /\ series_foundation' = None
    /\ all_chapters' = <<>>
    /\ chapter_summaries' = <<>>
    /\ pc' = "idle"
    /\ loc' = NoLoc
    /\ ret' = RetNothing
    /\ h_run' = NoRun
    /\ h_calls' = <<>>
    /\ UNCHANGED <<peer, f_endings, f_texts, ticks, rpm, rpd, rl_op, rl_ret, hvars, files, h_bad, h_ops, h_focus>>

\* hindi_manhwa_generator.py:115-119,161-165  between two stages a document on disk
\* is damaged (a torn write, an edit by hand): json.load will raise on it.  What
\* the last stage left behind is no longer what is on disk, so its history ends.
CorruptFile ==
    /\ pc = "idle"
    /\ h_focus = "storage"
    /\ h_bad < MaxBad
    /\ h_bad' = h_bad + 1
    /\ \/ /\ session_index \notin {CorruptIndex, EmptyMap}
          /\ session_index' = CorruptIndex
          /\ UNCHANGED <<f_foundation, f_all_chapters, f_outline_progress, f_chapter_progress>>
       \/ /\ \E sid \in DOMAIN f_foundation :
                /\ f_foundation[sid] # Corrupt
                /\ f_foundation' = [f_foundation EXCEPT ![sid] = Corrupt]
          /\ UNCHANGED <<session_index, f_all_chapters, f_outline_progress, f_chapter_progress>>
       \/ /\ \E sid \in DOMAIN f_all_chapters :
                /\ f_all_chapters[sid] # Corrupt
                /\ f_all_chapters' = [f_all_chapters EXCEPT ![sid] = Corrupt]
          /\ UNCHANGED <<session_index, f_foundation, f_outline_progress, f_chapter_progress>>
       \/ /\ \E sid \in DOMAIN f_outline_progress :
                /\ f_outline_progress[sid] # Corrupt
                /\ f_outline_progress' = [f_outline_progress EXCEPT ![sid] = Corrupt]
          /\ UNCHANGED <<session_index, f_foundation, f_all_chapters, f_chapter_progress>>
       \/ /\ \E sid \in DOMAIN f_chapter_progress :
                /\ f_chapter_progress[sid] # Corrupt
                /\ f_chapter_progress' = [f_chapter_progress EXCEPT ![sid] = Corrupt]
          /\ UNCHANGED <<session_index, f_foundation, f_all_chapters, f_outline_progress>>
    /\ h_run' = NoRun
    /\ h_calls' = <<>>
    /\ UNCHANGED <<peer, ctxvars, now, ticks, rlvars, hvars, mem, ctl, h_ops, h_procs, h_focus>>

WriteSteps_CheckpointFirst(k) == {<<"checkpoint", "ending", "summary", "text">>[i] : i \in 1..k}
\* chapter_content_builder.py:101-122 and hindi_manhwa_generator.py:343-355  the
\* first k of the writes a generated chapter causes, in the order of the code: the
\* excerpt, the summary, the chapter file, the checkpoint
WriteSteps(k) == {<<"ending", "summary", "text", "checkpoint">>[i] : i \in 1..k}

\* chapter_content_builder.py:91-122 and hindi_manhwa_generator.py:44-86  the call
\* answered a script and the process stops after k of the writes; a new process
\* constructs a generator over the files as they are
ChapterCrash ==
    /\ pc = "c_call"
    /\ loc.op = h_focus
    /\ h_procs < MaxProcs
    /\ \E k \in 1..3 :
         LET ch == all_chapters[loc.pos]
             content == Content("script", ch, session_id)
             done == WriteSteps(k)
         IN  /\ f_endings' = IF "ending" \in done
                              THEN SaveChapterEnding(f_endings, ch, content) ELSE f_endings
             /\ f_texts' = IF "text" \in done
                            THEN Put(f_texts, ChapterFile(series_foundation, ch), content)
                            ELSE f_texts
             /\ f_chapter_progress' =
                  IF "checkpoint" \in done
                  THEN SaveJsonFile(f_chapter_progress, session_id,
                           [last_completed_chapter |-> ch,
                            failed |-> RemoveFirst(loc.failed, ch)])
                  ELSE f_chapter_progress
    /\ h_procs' = h_procs + 1
    /\ \E d \in RestartDelays : now' = now + d
    /\ session_id' = FreshSessionId(now')
    /\ request_times' = <<>>
    /\ daily_requests' = 0
    /\ last_reset' = now'
    /\ series_foundation' = None
    /\ all_chapters' = <<>>
    /\ chapter_summaries' = <<>>
    /\ pc' = "idle"
    /\ loc' = NoLoc
    /\ ret' = RetNothing
    /\ h_run' = NoRun
    /\ h_calls' = <<>>
    /\ UNCHANGED <<peer, ticks, rpm, rpd, rl_op, rl_ret, hvars, session_index, f_foundation,
                   f_all_chapters, f_outline_progress, h_bad, h_ops, h_focus>>

\* ------------------------------------------------- a second process, same session
\* hindi_manhwa_generator.py:171-185, 295-331  another process whose generator took
\* the registered session of the topic from the index and its foundation from the
\* disk calls generate_all_chapters(start_from): the outlines of the canonical file
\* and the chapter checkpoint are read once, into its own memory
PeerStartChapters ==
    /\ h_focus = "race"
    /\ peer = NoPeer
    /\ h_procs < MaxProcs
    /\ \E topic \in TopicsAsked : RegisteredSession(session_index, topic) = session_id
    /\ Truthy(LoadFile(f_foundation, session_id))
    /\ Loads(f_all_chapters, session_id)
    /\ \E start_from \in StartFroms :
         LET chs == f_all_chapters[session_id].chapters
             progress == LoadChapterProgress(session_id)
             current_start == ResumePoint(start_from, progress.last_completed_chapter)
             first == NextPos(chs, 1, current_start)
         IN  peer' = [pc |-> IF first > Len(chs) THEN "done" ELSE "run",
                      sid |-> session_id,
                      foundation |-> f_all_chapters[session_id].foundation,
                      chapters |-> chs,
                      pos |-> first,
                      current_start |-> current_start,
                      failed |-> progress.failed,
                      last_completed |-> progress.last_completed_chapter]
    /\ h_procs' = h_procs + 1
    /\ UNCHANGED <<now, ticks, rlvars, hvars, files, mem, ctl, ctxvars,
                   h_calls, h_run, h_bad, h_ops, h_focus>>

\* hindi_manhwa_generator.py:333-367 and chapter_content_builder.py:91-129  one turn
\* of the other process's loop, its call answering a script: the chapter at its
\* position is generated (or fails for want of a prompt), the files of a generated
\* chapter are written, and the checkpoint is saved from the copy that process holds
PeerChapter ==
    /\ peer.pc = "run"
    /\ LET ch == peer.chapters[peer.pos]
           ok == PromptBuilds(peer.foundation)
           failed == IF ok THEN RemoveFirst(peer.failed, ch) ELSE Append(peer.failed, ch)
           last == IF ok THEN ch ELSE peer.last_completed
           nxt == NextPos(peer.chapters, peer.pos + 1, peer.current_start)
       IN  /\ IF ok
              THEN /\ f_endings' = SaveChapterEnding(f_endings, ch, Content("script", ch, peer.sid))
                   /\ f_texts' = Put(f_texts, ChapterFile(peer.foundation, ch),
                                     Content("script", ch, peer.sid))
              ELSE UNCHANGED <<f_endings, f_texts>>
           /\ f_chapter_progress' = SaveJsonFile(f_chapter_progress, peer.sid,
                  [last_completed_chapter |-> last, failed |-> failed])
           /\ peer' = [peer EXCEPT !.pc = IF nxt > Len(peer.chapters) THEN "done" ELSE "run",
                                   !.pos = nxt,
                                   !.failed = failed,
                                   !.last_completed = last]
    /\ UNCHANGED <<now, ticks, rlvars, hvars, session_index, f_foundation, f_all_chapters,
                   f_outline_progress, mem, ctl, chapter_summaries, hpipe>>


NextRL ==
    \/ Tick
    \/ RLCanMakeRequest
    \/ RLRecordRequest
    \/ RLGetWaitTime

SpecRL == InitRL /\ [][NextRL]_vars

\* the pipeline, driven stage by stage: the stage named by h_focus is the one whose
\* responses may be malformed or fail and whose run a new process may interrupt; the
\* stages before it answer well
InitFoundation == InitWith(PipelineQuotas) /\ h_focus = "foundation"
InitOutlines == InitWith(PipelineQuotas) /\ h_focus = "outline"
InitChapters == InitWith(PipelineQuotas) /\ h_focus = "chapters"
\* under "storage" every response is well formed and what goes wrong is the disk
InitStorage == InitWith(PipelineQuotas) /\ h_focus = "storage"

NextFoundation ==
    \/ NewProcess
    \/ StartFoundation
    \/ FoundationWait
    \/ FoundationCall

NextOutlines ==
    \/ NextFoundation
    \/ StartOutlines
    \/ OutlineWait
    \/ OutlineCall

NextChapters ==
    \/ NextOutlines
    \/ StartChapters
    \/ ChapterWait
    \/ ChapterCall

SpecFoundation == InitFoundation /\ [][NextFoundation]_vars
SpecOutlines == InitOutlines /\ [][NextOutlines]_vars
SpecChapters == InitChapters /\ [][NextChapters]_vars

NextStorage ==
    \/ NextChapters
    \/ CorruptFile

SpecStorage == InitStorage /\ [][NextStorage]_vars

\* the three stages with the outline stage under focus: the chapter stage runs on
\* whatever an outline stage that met bad answers left behind
SpecPipeline == InitOutlines /\ [][NextChapters]_vars

\* the three stages and single chapters asked for on their own
NextRegenerate ==
    \/ NextChapters
    \/ RegenerateChapter

SpecRegenerate == InitChapters /\ [][NextRegenerate]_vars

\* one generator asked for two topics: the first two stages with both topics, every
\* outline response well formed
SpecSeries == InitFoundation /\ [][NextOutlines]_vars
\* and the three stages with both topics
SpecTopics == InitFoundation /\ [][NextChapters]_vars

\* two processes on one session, every response well formed
InitRace == InitWith(PipelineQuotas) /\ h_focus = "race"

NextRace ==
    \/ NextChapters
    \/ PeerStartChapters
    \/ PeerChapter

SpecRace == InitRace /\ [][NextRace]_vars

\* the three stages, and a process that stops between the writes of a chapter
NextCrash ==
    \/ NextChapters
    \/ ChapterCrash

SpecCrash == InitChapters /\ [][NextCrash]_vars

\* ===================================================================== claims

\* C1: every external generation call is issued only when the rate limiter
\* permits it: at the moment of each call of the running stage,
\* can_make_request() would have answered allowed.
C1_CallsOnlyWhenPermitted ==
    \A i \in 1..Len(h_calls) : h_calls[i].permitted

\* C2: once rpd requests have been recorded in one day window, every
\* can_make_request() answers (False, daily-limit message); the window rolls over
\* exactly at the first can_make_request() made a full day (DaySeconds) or more
\* after the last reset, which zeroes the counter and restarts the window there.
C2_DailyLimitUntilRollover ==
    /\ last_reset = h_win_start
    /\ daily_requests = h_win_count
    /\ (rl_op = "can_make_request" /\ h_win_count >= rpd)
          => rl_ret = Ret(FALSE, DailyMsg, 0, rpd)

\* C2 witness: after a rollover, the quota of the new window is used up and
\* can_make_request() has answered with the daily-limit message.
C2_Witness ==
    /\ h_win_start > 0
    /\ h_win_count >= rpd
    /\ rl_op = "can_make_request"
    /\ rl_ret.msg = DailyMsg

\* C3: with the daily quota not exhausted, once rpm requests have been recorded
\* within the last 60 seconds can_make_request() answers (False, "Rate limit: wait
\* n s (max rpm requests/min)") with 0 < n <= 60, and the can_make_request() made
\* n seconds later, with no request recorded in between, answers allowed.
C3_RateLimitThenAllowed ==
    (rl_op = "can_make_request" /\ ~DailyExhausted(daily_requests, rpd)) =>
        /\ h_call.recent = rpm =>
              /\ rl_ret.allowed = FALSE
              /\ rl_ret.msg = RateMsg
              /\ rl_ret.max = rpm
              /\ 0 < rl_ret.wait /\ rl_ret.wait <= Window
        /\ h_call.at_due => rl_ret.allowed

\* C4: every external generation call is followed by exactly one
\* record_request(), whatever its outcome: the daily counter has grown by one for
\* each call the running stage has issued.
C4_EveryCallRecorded ==
    h_run.op # "none" => daily_requests = h_run.dr0 + Len(h_calls)

\* the resume point the chapter checkpoint and the requested start stand for
C5_ResumeAt == Max(h_run.start_from, h_run.last0 + 1)

\* C5: chapter generation resumes at max(requested start, last_completed_chapter
\* + 1): no chapter below that point receives an external call in the run, and
\* the first call of the run is for the first outline entry at or above it.
C5_NoCallBelowResumePoint ==
    h_run.op = "chapters" =>
        /\ \A i \in 1..Len(h_calls) : h_calls[i].arg >= C5_ResumeAt
        /\ Len(h_calls) >= 1 =>
              \E j \in 1..Len(h_run.chapters0) :
                  /\ h_run.chapters0[j] = h_calls[1].arg
                  /\ \A k \in 1..(j - 1) : h_run.chapters0[k] < C5_ResumeAt

\* C5 witness: a run that found a checkpoint with chapters completed, was asked
\* to start from chapter 1, and has issued a call.
C5_Witness ==
    /\ h_run.op = "chapters"
    /\ h_run.start_from = 1
    /\ h_run.last0 >= 1
    /\ Len(h_calls) >= 1

\* C6: a chapter recorded as failed by an earlier invocation is attempted again by
\* a later resumed invocation: when a run started from chapter 1 has finished,
\* every chapter its checkpoint listed as failed has been attempted in it.
C6_FailedRetriedOnResume ==
    (h_run.op = "chapters" /\ h_run.done /\ h_run.start_from = 1
        /\ h_run.chapters0 # <<>>) =>
        \A i \in 1..Len(h_run.failed0) :
            \E j \in 1..Len(h_run.attempted) :
                h_run.chapters0[h_run.attempted[j].pos] = h_run.failed0[i]

\* the batches the progress checkpoint did not list when the outline run started
C7_Remaining == {i \in 1..NumBatches : Batch(i) \notin h_run.completed0}

\* C7: a re-run of outline generation issues no external call for a batch the
\* progress checkpoint lists as completed, takes the remaining batches in the
\* fixed order, all of them when no batch fails, and the batches that were
\* completed stay completed in the checkpoint.
C7_SkipsCompletedBatches ==
    (h_run.op = "outline" /\ ~h_run.complete0) =>
        /\ \A i \in 1..Len(h_calls) : h_calls[i].arg \in C7_Remaining
        /\ \A i, j \in 1..Len(h_calls) : i < j => h_calls[i].arg <= h_calls[j].arg
        /\ (h_run.done /\ ~h_run.aborted) =>
              {h_calls[i].arg : i \in 1..Len(h_calls)} = C7_Remaining
        /\ session_id \in DOMAIN f_outline_progress =>
              h_run.completed0 \subseteq Range(f_outline_progress[session_id].completed_batches)

\* C7 witness: a run that found completed batches in the checkpoint, issued calls
\* for the remaining ones and came to its end without a failure.
C7_Witness ==
    /\ h_run.op = "outline"
    /\ h_run.completed0 # {}
    /\ Len(h_calls) >= 1
    /\ h_run.done
    /\ ~h_run.aborted

\* C8: when a complete canonical outline document exists, the outline stage makes
\* no external call, consumes no quota and returns the document's sequence, every
\* time it is called.
C8_CompleteOutlinesIdempotent ==
    (h_run.op = "outline" /\ h_run.complete0) =>
        /\ h_calls = <<>>
        /\ pc = "idle"
        /\ ret = RetChapters(h_run.chapters0)
        /\ all_chapters = h_run.chapters0
        /\ request_times = h_run.rt0
        /\ daily_requests = h_run.dr0

\* C8 witness: the outline stage has been called again and again on a complete
\* document (foundation, the generating run, and at least two runs after it).
C8_Witness ==
    /\ h_run.op = "outline"
    /\ h_run.complete0
    /\ Len(h_run.chapters0) = TotalChapters
    /\ h_ops >= 4

\* C9: when the registry has the topic and the registered session's foundation
\* checkpoint loads, foundation generation makes no external call, returns the
\* cached document, adopts the registered session id and leaves the registry
\* and the checkpoint as they were.
C9_CachedFoundation ==
    (h_run.op = "foundation" /\ h_run.registered # NoSession /\ Truthy(h_run.cached)) =>
        /\ h_calls = <<>>
        /\ pc = "idle"
        /\ ret = RetDoc(h_run.cached)
        /\ series_foundation = h_run.cached
        /\ session_id = h_run.registered
        /\ session_index = h_run.index0
        /\ LoadFile(f_foundation, h_run.registered) = h_run.cached

\* C9 witness: a later process, whose own session id is a newer one, asked for a
\* registered topic and got the cached foundation.
C9_Witness ==
    /\ h_run.op = "foundation"
    /\ h_run.registered # NoSession
    /\ Truthy(h_run.cached)
    /\ h_procs = 2
    /\ FreshSessionId(now) # h_run.registered

\* the positions of the outline entries at or above the resume point, in order
C10_Due ==
    SelectSeq(Seq2(1, Len(h_run.chapters0)),
              LAMBDA j : h_run.chapters0[j] >= C5_ResumeAt)

\* C10: a failed chapter does not end the run: the entries at or above the resume
\* point are attempted one after the other, each once; the run ends only when all
\* of them have been attempted, and then returns (success, failed) with the
\* successes counted and every failed chapter in the failed list and the checkpoint.
C10_FailureNeverFatal ==
    h_run.op = "chapters" =>
        /\ Len(h_run.attempted) <= Len(C10_Due)
        /\ \A i \in 1..Len(h_run.attempted) : h_run.attempted[i].pos = C10_Due[i]
        /\ ~h_run.done =>
              /\ pc \in {"c_wait", "c_call"}
              /\ loc.pos = C10_Due[Len(h_run.attempted) + 1]
        /\ h_run.done =>
              /\ pc = "idle"
              /\ ret.kind = "pair"
              /\ Len(h_run.attempted) = Len(C10_Due)
              /\ ret.success = Cardinality({i \in 1..Len(h_run.attempted) : h_run.attempted[i].ok})
              /\ h_run.attempted # <<>> =>
                    /\ f_chapter_progress[session_id].failed = ret.failed
                    /\ \A i \in 1..Len(h_run.attempted) :
                          ~h_run.attempted[i].ok =>
                              h_run.chapters0[h_run.attempted[i].pos] \in Range(ret.failed)

\* C10 witness: a finished run in which a chapter failed and a later one succeeded.
C10_Witness ==
    /\ h_run.op = "chapters"
    /\ h_run.done
    /\ \E i, j \in 1..Len(h_run.attempted) :
          i < j /\ ~h_run.attempted[i].ok /\ h_run.attempted[j].ok

\* C11: the accumulated outline sequence never holds two entries with the same
\* chapter_num, and once all five batches are recorded as completed (in the
\* progress checkpoint, or by a run that took every remaining batch and ended
\* without a failure) its chapter_num values are exactly 1..TotalChapters in order.
C11_UniqueContiguousOutlines ==
    /\ \A i, j \in 1..Len(all_chapters) : i # j => all_chapters[i] # all_chapters[j]
    /\ \A sid \in DOMAIN f_outline_progress :
          (\A b \in 1..NumBatches : Batch(b) \in Range(f_outline_progress[sid].completed_batches))
              => f_outline_progress[sid].chapters = Seq2(1, TotalChapters)
    /\ (h_run.op = "outline" /\ h_run.done /\ ~h_run.aborted /\ ~h_run.complete0)
          => all_chapters = Seq2(1, TotalChapters)

\* C12: after a foundation run registered its session for the topic asked,
\* looking the topic up returns exactly that session id (also when the topic was
\* registered to another session before), and every other topic maps to what it
\* mapped to before the run.
C12_RegistryRoundTrip ==
    (h_run.op = "foundation" /\ h_run.done /\ h_calls # <<>>
        /\ ret.kind = "doc" /\ Truthy(ret.doc)) =>
        /\ RegisteredSession(session_index, h_run.topic) = session_id
        /\ \A t \in Topics \ {h_run.topic} :
              RegisteredSession(session_index, t) = RegisteredSession(h_run.index0, t)

\* C12 witness: the topic was registered to an older session, another topic was
\* registered too, and the run has registered its new session for the topic.
C12_Witness ==
    /\ h_run.op = "foundation" /\ h_run.done /\ h_calls # <<>>
    /\ ret.kind = "doc" /\ Truthy(ret.doc)
    /\ h_run.registered # NoSession
    /\ h_run.registered # session_id
    /\ \E t \in Topics \ {h_run.topic} : RegisteredSession(h_run.index0, t) # NoSession

\* C13: a damaged document is loaded as no prior state and the stage goes on as on
\* a fresh run.  No stage raises.  With the session index damaged the topic is
\* looked up as unregistered, a foundation is generated under a fresh session id
\* and the index afterwards holds that one entry; with the registered foundation
\* file damaged a foundation is generated and registered anew; with the canonical
\* document damaged the outline run goes through its loop and writes it again, and
\* a chapter run with nothing in memory finds no outlines; with a progress
\* checkpoint damaged the outline run starts at batch 1 and the chapter run at
\* the requested start.
C13_CorruptIsNoPriorState ==
    /\ ret.kind # "exception"
    /\ (h_run.op = "foundation" /\ h_run.damaged # {}) =>
          /\ pc \in {"f_wait", "f_call"} \/ h_calls # <<>>
          /\ session_id = FreshSessionId(h_run.t0)
          /\ h_run.done =>
                /\ Loads(f_foundation, session_id)
                /\ RegisteredSession(session_index, h_run.topic) = session_id
                /\ "index" \in h_run.damaged =>
                      session_index = Put(EmptyMap, h_run.topic, session_id)
    /\ (h_run.op = "outline" /\ "canonical" \in h_run.damaged /\ h_run.done) =>
          /\ Loads(f_all_chapters, session_id)
          /\ f_all_chapters[session_id].chapters = all_chapters
    /\ (h_run.op = "outline" /\ "outline_progress" \in h_run.damaged /\ ~h_run.complete0) =>
          /\ Len(h_calls) >= 1 => h_calls[1].arg = 1
          /\ h_run.done => Len(all_chapters) >= Len(h_run.memory0)
    /\ (h_run.op = "chapters" /\ "canonical" \in h_run.damaged /\ h_run.memory0 = <<>>) =>
          /\ h_calls = <<>>
          /\ ret = RetPair(0, Seq2(h_run.start_from, TotalChapters))
    /\ (h_run.op = "chapters" /\ "chapter_progress" \in h_run.damaged) =>
          /\ Len(h_calls) >= 1 =>
                \E j \in 1..Len(h_run.chapters0) :
                    /\ h_run.chapters0[j] = h_calls[1].arg
                    /\ h_run.chapters0[j] >= h_run.start_from
                    /\ \A k \in 1..(j - 1) : h_run.chapters0[k] < h_run.start_from
          /\ h_run.failed0 = <<>>
          /\ h_run.last0 = 0
          /\ (h_run.done /\ h_run.chapters0 # <<>>) =>
                \A i \in 1..Len(ret.failed) :
                    \E a \in 1..Len(h_run.attempted) :
                        /\ ~h_run.attempted[a].ok
                        /\ h_run.chapters0[h_run.attempted[a].pos] = ret.failed[i]

\* C13 witness: a foundation run that found the session index damaged has
\* generated a foundation and registered it.
C13_Witness ==
    /\ h_run.op = "foundation"
    /\ "index" \in h_run.damaged
    /\ h_run.done
    /\ h_calls # <<>>

\* a chapter run that found its checkpoint damaged has issued a call
C13_WitnessChapters ==
    /\ h_run.op = "chapters"
    /\ "chapter_progress" \in h_run.damaged
    /\ Len(h_calls) >= 1

\* the entries of a parsed answer that are records with chapter_num, one by one
\* from the front
RECURSIVE C14_Kept(_)
C14_Kept(items) ==
    IF items = <<>> THEN <<>>
    ELSE IF Head(items) = BadItem THEN C14_Kept(Tail(items))
    ELSE <<Head(items)>> \o C14_Kept(Tail(items))

\* C14: the result of an outline batch is the entries of the parsed answer that are
\* records with chapter_num, in their order, the others dropped; an answer that is
\* one such record gives the one-element sequence holding it; an answer that does
\* not parse gives the empty result.
C14_BatchResultIsFilteredAnswer ==
    (h_run.op = "outline" /\ h_run.resp.shape \in {"list", "dict", "unparsable"}) =>
        /\ h_run.valid = C14_Kept(h_run.resp.items)
        /\ h_run.resp.shape = "dict" => h_run.valid = <<h_run.resp.items[1]>>
        /\ h_run.valid # <<>> =>
              \E k \in 0..Len(all_chapters) :
                  all_chapters = SubSeq(all_chapters, 1, k) \o h_run.valid

\* C14 witness: an answer that is a single record was received and its batch result
\* is the one-element sequence; the stage went on.
C14_Witness ==
    /\ h_run.op = "outline"
    /\ h_run.resp.shape = "dict"
    /\ Len(h_run.valid) = 1
    /\ Len(h_calls) >= 2

\* C14 witness of the filter: an answer with a non-conforming entry in front was
\* received and the conforming entries were kept.
C14_WitnessDropped ==
    /\ h_run.op = "outline"
    /\ h_run.resp.shape = "list"
    /\ Len(h_run.resp.items) > Len(h_run.valid)
    /\ h_run.valid # <<>>

\* the parts of a context that render entries of chapter_summaries
C15_Summaries(context) == SelectSeq(context, LAMBDA p : p.part = "summary")

\* C15: when the prompt of chapter n has been built, its context is empty for
\* n = 1; for n > 1 it holds one rendered summary for each of the last three entries
\* of chapter_summaries (for all of them when there are three or fewer), in their
\* order, and after them the contents of the excerpt file of chapter n - 1 when that
\* file exists and has text; without that file it holds no excerpt.
C15_ContextIsRecentSummariesAndEnding ==
    pc = "c_call" =>
        LET n == all_chapters[loc.pos]
            ctx == loc.context
            S == C15_Summaries(ctx)
            k == IF Len(chapter_summaries) < 3 THEN Len(chapter_summaries) ELSE 3
            excerpts == {i \in 1..Len(ctx) : ctx[i].part = "ending"}
        IN  /\ n = 1 => ctx = <<>>
            /\ n > 1 =>
                  /\ Len(S) = k
                  /\ \A i \in 1..k :
                        S[i].ch = chapter_summaries[Len(chapter_summaries) - k + i]
                  /\ (n - 1 \in DOMAIN f_endings /\ f_endings[n - 1] # NoText) =>
                        /\ excerpts = {Len(ctx)}
                        /\ ctx[Len(ctx)].text = f_endings[n - 1]
                  /\ (n - 1 \notin DOMAIN f_endings \/ f_endings[n - 1] = NoText) =>
                        excerpts = {}

\* C15 witness: the prompt of chapter 5 is built while chapter_summaries holds
\* chapters 2, 3 and 4 and the excerpt file of chapter 4 has text.
C15_Witness ==
    /\ pc = "c_call"
    /\ all_chapters[loc.pos] = 5
    /\ chapter_summaries = <<2, 3, 4>>
    /\ 4 \in DOMAIN f_endings
    /\ f_endings[4] # NoText
    /\ Len(loc.context) = 6

\* C15 witness of the window: a prompt is built while chapter_summaries holds more
\* than three entries.
C15_WitnessWindow ==
    /\ pc = "c_call"
    /\ Len(chapter_summaries) > 3
    /\ Len(C15_Summaries(loc.context)) = 3

\* the calls of the running outline stage made for the batch of call i before it
C16_Earlier(i) == {j \in 1..(i - 1) : h_calls[j].arg = h_calls[i].arg}

\* C16: in one run of the outline stage a batch whose call returned an empty result
\* (an answer that does not parse or holds no conforming entry) is asked for once
\* more, not before the backoff has passed; no batch gets more than two calls; and
\* when the second call of a batch does not give outlines the stage has stopped:
\* no call follows it.
C16_EmptyBatchRetriedOnce ==
    h_run.op = "outline" =>
        \A i \in 1..Len(h_calls) :
            /\ Cardinality(C16_Earlier(i)) <= 1
            /\ (h_calls[i].out = "empty" /\ C16_Earlier(i) = {}) =>
                  IF i < Len(h_calls)
                  THEN /\ h_calls[i + 1].arg = h_calls[i].arg
                       /\ h_calls[i + 1].at >= h_calls[i].at + RetryBackoff
                  ELSE /\ pc \in {"o_wait", "o_call"}
                       /\ loc.idx = h_calls[i].arg
                       /\ loc.retry
                       /\ now >= h_calls[i].at + RetryBackoff
            /\ (h_calls[i].out # "ok" /\ C16_Earlier(i) # {}) =>
                  /\ i = Len(h_calls)
                  /\ pc = "idle"
                  /\ h_run.done /\ h_run.aborted
            /\ C16_Earlier(i) # {} => h_calls[i - 1].out = "empty"

\* C16 witness: a batch other than the last came back empty twice and the stage
\* has stopped after its second call.
C16_Witness ==
    /\ h_run.op = "outline"
    /\ h_run.done
    /\ Len(h_calls) >= 2
    /\ h_calls[Len(h_calls)].out = "empty"
    /\ h_calls[Len(h_calls) - 1].out = "empty"
    /\ h_calls[Len(h_calls)].arg = h_calls[Len(h_calls) - 1].arg
    /\ h_calls[Len(h_calls)].arg < NumBatches

\* C16 witness of a retry that helped: a batch came back empty, its second call
\* gave outlines, and a later batch was called.
C16_WitnessRecovered ==
    /\ h_run.op = "outline"
    /\ \E i \in 1..Len(h_calls) :
          /\ i + 2 <= Len(h_calls)
          /\ h_calls[i].out = "empty"
          /\ h_calls[i + 1].out = "ok"
          /\ h_calls[i + 1].arg = h_calls[i].arg
          /\ h_calls[i + 2].arg > h_calls[i].arg

\* C17: an outline call that raises (quota, timeout, network) is followed by one
\* more call for the same batch before the stage gives up on it.
C17_RaisingBatchRetried ==
    h_run.op = "outline" =>
        \A i \in 1..Len(h_calls) :
            (h_calls[i].out = "raise" /\ C16_Earlier(i) = {}) =>
                IF i < Len(h_calls)
                THEN h_calls[i + 1].arg = h_calls[i].arg
                ELSE ~h_run.done

\* the chapter the running chapter stage attempted last, and whether it succeeded
C18_Last == h_run.attempted[Len(h_run.attempted)]

\* last_completed_chapter as it stood before the last attempt of the running stage
C18_LastCompletedBefore ==
    LET oks == {i \in 1..(Len(h_run.attempted) - 1) : h_run.attempted[i].ok}
    IN  IF oks = {} THEN h_run.last0
        ELSE h_run.chapters0[h_run.attempted[CHOOSE i \in oks : \A j \in oks : j <= i].pos]

\* C18: after every chapter attempt the checkpoint on disk shows it: after a
\* success of chapter n, last_completed_chapter is n and n is not in failed; after a
\* failure, n is in failed and last_completed_chapter is what it was.
C18_CheckpointAfterEveryAttempt ==
    (h_run.op = "chapters" /\ h_run.attempted # <<>>) =>
        LET n == h_run.chapters0[C18_Last.pos]
            cp == f_chapter_progress[session_id]
        IN  /\ Loads(f_chapter_progress, session_id)
            /\ C18_Last.ok =>
                  /\ cp.last_completed_chapter = n
                  /\ n \notin Range(cp.failed)
            /\ ~C18_Last.ok =>
                  /\ n \in Range(cp.failed)
                  /\ cp.last_completed_chapter = C18_LastCompletedBefore

\* the outline progress of session sid as a run reads it from disk
C19_Persisted(f, sid) ==
    IF Loads(f, sid) THEN f[sid] ELSE [completed_batches |-> <<>>, chapters |-> <<>>]

\* C19: the outline progress on disk changes only when a batch has returned
\* outlines, and then at once: the batch is appended to the completed batches and
\* exactly its outlines are appended to the persisted sequence (or, after the last
\* batch, the file is removed); so the persisted sequence is at every point the
\* concatenation, in completion order, of what the completed batches returned.
C19_ProgressIsCompletedBatches ==
    [][ /\ \A sid \in DOMAIN f_outline_progress' :
              ( /\ f_outline_progress'[sid] # Corrupt
                /\ sid \in DOMAIN f_outline_progress => f_outline_progress'[sid] # f_outline_progress[sid] ) =>
                  /\ pc = "o_call"
                  /\ sid = session_id
                  /\ h_run'.valid # <<>>
                  /\ f_outline_progress'[sid].completed_batches =
                        Append(C19_Persisted(f_outline_progress, sid).completed_batches,
                               Batch(loc.idx))
                  /\ f_outline_progress'[sid].chapters =
                        C19_Persisted(f_outline_progress, sid).chapters \o h_run'.valid
        /\ (pc = "o_call" /\ h_run'.op = "outline" /\ h_run'.valid # <<>>) =>
              \/ /\ Loads(f_outline_progress', session_id)
                 /\ f_outline_progress' # f_outline_progress
              \/ /\ pc' = "idle"
                 /\ session_id \notin DOMAIN f_outline_progress'
      ]_vars

\* an outline run that went through the batch loop has ended: the canonical
\* snapshot of the session holds the accumulated sequence and its length, and the
\* progress checkpoint is gone when TotalChapters outlines are held
C20_AfterLoop ==
    (h_run.op = "outline" /\ h_run.done /\ ~h_run.complete0) =>
        /\ pc = "idle"
        /\ Loads(f_all_chapters, session_id)
        /\ f_all_chapters[session_id].chapters = all_chapters
        /\ f_all_chapters[session_id].total = Len(all_chapters)
        /\ ret = RetChapters(all_chapters)
        /\ Len(all_chapters) >= TotalChapters => session_id \notin DOMAIN f_outline_progress

C20_WitnessAborted ==
    /\ h_run.op = "outline" /\ h_run.done /\ h_run.aborted
    /\ Len(all_chapters) > 0
    /\ Len(all_chapters) < TotalChapters
    /\ f_all_chapters[session_id].total = Len(all_chapters)
    /\ Loads(f_outline_progress, session_id)

\* an answer that parses to a list whose first element is a record with series_title
C21_TitledList(resp) == resp.shape = "list" /\ HasTitle(resp.first)

\* an answer that parses to no record and to no such list, or does not parse
C21_NoRecord(resp) ==
    \/ resp.shape \in {"unparsable", "scalar"}
    \/ resp.shape = "list" /\ ~HasTitle(resp.first)

\* C21: the foundation call that receives a list whose first element is a record
\* with series_title accepts that record: it is returned, written as the session's
\* foundation and registered for the topic.  The call that receives anything else
\* that is no record ends the stage returning none: it was the only call of the
\* run, no foundation file is written and the registry stays as it was.
C21_FoundationShapeValidation ==
    [][ (pc = "f_call" /\ h_run'.op = "foundation") =>
          /\ C21_TitledList(h_run'.resp) =>
                /\ ret' = RetDoc(h_run'.resp.first)
                /\ series_foundation' = h_run'.resp.first
                /\ Loads(f_foundation', session_id)
                /\ f_foundation'[session_id] = h_run'.resp.first
                /\ RegisteredSession(session_index', h_run.topic) = session_id
          /\ C21_NoRecord(h_run'.resp) =>
                /\ ret' = RetDoc(None)
                /\ pc' = "idle"
                /\ h_run'.done
                /\ Len(h_calls') = 1
                /\ f_foundation' = f_foundation
                /\ session_index' = session_index
                /\ series_foundation' = series_foundation
      ]_vars

\* C21 witness: a list with a titled first record was received and accepted.
C21_Witness ==
    /\ h_run.op = "foundation" /\ h_run.done
    /\ C21_TitledList(h_run.resp)
    /\ ret = RetDoc(h_run.resp.first)
    /\ RegisteredSession(session_index, h_run.topic) = session_id

\* C21 witness of a rejection: a list whose first element is a record without
\* series_title was received by a run for a topic that is not registered.
C21_WitnessRejected ==
    /\ h_run.op = "foundation" /\ h_run.done
    /\ h_run.resp.shape = "list" /\ h_run.resp.first = Untitled
    /\ ret = RetDoc(None)
    /\ h_run.topic \notin DOMAIN session_index

\* no outline call of the running stage was issued without a foundation held
C22_OutlineNeedsFoundation ==
    \A i \in 1..Len(h_calls) :
        h_calls[i].stage = "outline" => HasTitle(series_foundation)

\* C22: the pipeline advances only from foundation to outlines to chapters: an
\* outline call is issued only when a foundation is held, and a chapter call only
\* when the outline set is complete (TotalChapters outlines).
C22_StagesInOrder ==
    /\ C22_OutlineNeedsFoundation
    /\ \A i \in 1..Len(h_calls) :
          h_calls[i].stage = "chapters" => Len(all_chapters) >= TotalChapters

\* the chapter_num of the i-th attempt of the running chapter stage
C23_Attempted(i) == h_run.chapters0[h_run.attempted[i].pos]

\* C23: within one run of the chapter stage the chapters are attempted in ascending
\* chapter_num order, none below the resume point, and the last_completed_chapter
\* on disk is never below what the run found.
C23_AscendingAttempts ==
    (h_run.op = "chapters" /\ h_run.attempted # <<>>) =>
        /\ \A i \in 1..(Len(h_run.attempted) - 1) : C23_Attempted(i) < C23_Attempted(i + 1)
        /\ \A i \in 1..Len(h_run.attempted) :
              C23_Attempted(i) >= ResumePoint(h_run.start_from, h_run.last0)
        /\ Loads(f_chapter_progress, session_id)
        /\ f_chapter_progress[session_id].last_completed_chapter >= h_run.last0

\* a chapter was generated on its own, successfully, while the checkpoint of the
\* session showed a later chapter as the last completed one
C24_EarlierRegenerated ==
    /\ h_run.op = "regenerate"
    /\ h_run.out = "script"
    /\ Loads(h_run.progress0, session_id)
    /\ h_run.progress0[session_id].last_completed_chapter > h_run.chapter

C24_LastOk ==
    LET oks == {i \in 1..Len(h_run.attempted) : h_run.attempted[i].ok}
    IN  h_run.chapters0[h_run.attempted[CHOOSE i \in oks : \A j \in oks : j <= i].pos]

C25_WindowIsLastMinute ==
    (rl_op = "can_make_request" /\ rl_ret.msg # DailyMsg) =>
        Len(request_times) = h_call.recent

\* the seconds until the oldest timestamp of window rt leaves the lookback at time t
C26_UntilOldestLeaves(rt, t) ==
    IF rt = <<>> \/ t - rt[1] >= Window THEN 0 ELSE Window - (t - rt[1])

\* C26: get_wait_time() returns the seconds until the oldest timestamp of the
\* rolling window leaves the 60-second lookback (60 minus its age), and 0 when the
\* window is empty or that timestamp is 60 seconds old or older.
C26_WaitUntilOldestLeaves ==
    [][ (rl_op' = "get_wait_time" /\ <<rl_op, rl_ret>>' # <<rl_op, rl_ret>>) =>
            rl_ret'.wait = C26_UntilOldestLeaves(request_times, now) ]_vars

\* C27: two processes on one session overwrite each other's checkpoint. Every save
\* of the chapter checkpoint leaves on disk exactly the copy held by the process
\* that saved, whatever the other process had persisted (last writer wins); the
\* witness is a state where a chapter this process completed and persisted is no
\* longer the last completed chapter on disk after the other process saved.
C27_OwnCopy ==
    IF loc'.op = "chapters"
    THEN [last_completed_chapter |-> loc'.last_completed, failed |-> loc'.failed]
    ELSE [last_completed_chapter |->
              IF h_run'.attempted[Len(h_run'.attempted)].ok
              THEN all_chapters[loc.pos] ELSE loc.last_completed,
          failed |-> ret'.failed]
C27_PeerCopy == [last_completed_chapter |-> peer'.last_completed, failed |-> peer'.failed]
C27_LastWriterWins ==
    [][ f_chapter_progress' # f_chapter_progress \/ (peer' # peer /\ peer.pc = "run") =>
          IF peer' # peer
          THEN f_chapter_progress'[peer.sid] = C27_PeerCopy
          ELSE f_chapter_progress'[session_id] = C27_OwnCopy ]_vars
C27_Witness ==
    /\ loc.op = "chapters"
    /\ peer # NoPeer
    /\ peer.sid = session_id
    /\ loc.last_completed > h_run.last0
    /\ f_chapter_progress[session_id].last_completed_chapter < loc.last_completed

\* C28: whenever a session's persisted chapter checkpoint names a last completed
\* chapter n > 0, the excerpt file of chapter n and a text file of chapter n exist:
\* the checkpoint is the last of the writes of a chapter, so a process that stops
\* between them leaves files without a checkpoint, never a checkpoint without files.
C28_HasText(n) == \E k \in DOMAIN f_texts : k[2] = n
C28_CheckpointAfterFiles ==
    \A sid \in DOMAIN f_chapter_progress :
        Loads(f_chapter_progress, sid) =>
            LET n == f_chapter_progress[sid].last_completed_chapter
            IN  n > 0 => n \in DOMAIN f_endings /\ C28_HasText(n)
C28_Witness ==
    /\ h_procs > 1
    /\ pc = "idle"
    /\ \E sid \in DOMAIN f_chapter_progress :
         /\ Loads(f_chapter_progress, sid)
         /\ f_chapter_progress[sid].last_completed_chapter > 0
         /\ \E m \in DOMAIN f_endings :
              /\ m > f_chapter_progress[sid].last_completed_chapter
              /\ ~C28_HasText(m)
              /\ f_endings[m].session = sid

\* C29: sessions do not interfere through the persisted context: when the prompt
\* of chapter n of a session has been built, the tail excerpt it embeds is the
\* excerpt of chapter n - 1 written in that same session.
C29_ExcerptOfSameSession ==
    pc = "c_call" =>
        \A i \in 1..Len(loc.context) :
            loc.context[i].part = "ending" =>
                /\ loc.context[i].text.session = session_id
                /\ loc.context[i].text.ch = all_chapters[loc.pos] - 1

\* C30: whenever the session registry maps a topic to a session id, a foundation
\* document of that session is on disk; the registry changes only in the step in
\* which a foundation was generated and written under the generator's session id,
\* and a foundation generation that fails leaves the registry as it was.
C30_Persisted(idx, fnd) ==
    \A topic \in DOMAIN LoadSessionIndex(idx) :
        LoadSessionIndex(idx)[topic] \in DOMAIN fnd
C30_Generated ==
    /\ pc = "f_call"
    /\ ret'.kind = "doc"
    /\ Truthy(ret'.doc)
C30_RegisteredAfterPersisted ==
    [][ /\ C30_Persisted(session_index', f_foundation')
        /\ (session_index' # session_index /\ session_index' # CorruptIndex) =>
              /\ C30_Generated
              /\ f_foundation'[session_id] = ret'.doc
              /\ LoadSessionIndex(session_index')[loc.topic] = session_id
        /\ (pc = "f_call" /\ pc' = "idle" /\ h_run'.op = "foundation" /\ ~C30_Generated) =>
              session_index' = session_index ]_vars
C30_Witness ==
    /\ pc = "idle"
    /\ h_run.op = "foundation"
    /\ h_calls # <<>>
    /\ h_run.topic \in DOMAIN LoadSessionIndex(session_index)
    /\ LoadSessionIndex(session_index)[h_run.topic] = session_id
    /\ h_run.index0 # session_index
    /\ Truthy(LoadFile(f_foundation, session_id))
C30_WitnessFailed ==
    /\ pc = "idle"
    /\ h_run.op = "foundation"
    /\ h_calls # <<>>
    /\ ~Truthy(ret.doc)
    /\ h_run.index0 = session_index
    /\ DOMAIN LoadSessionIndex(session_index) # {}

====
